---- MODULE Spec2Model ----
(***************************************************************************)
(* descartes/patch.py: the Polygon adapter over Shapely-like objects and   *)
(* GeoJSON-like mappings, PolygonPath and PolygonPatch.                    *)
(*                                                                         *)
(* Python values are modelled as follows.  An object is                    *)
(* [cls |-> "object", attrs |-> f] with f a function from the names of the *)
(* attributes it exposes to their values; a dict is                        *)
(* [cls |-> "dict", items |-> f].  The outcome of an evaluation is Ok(v),  *)
(* None (Python's None) or Raise(exc, detail) (an exception that leaves    *)
(* the function).  A numpy array is [ndim |-> n, data |-> sequence].       *)
(***************************************************************************)
EXTENDS Integers, Sequences, FiniteSets, TLC

VARIABLES polygon, this, op, kwargs, ret

vars == <<polygon, this, op, kwargs, ret>>

(***************************************************************************)
(* Bounds of the inputs.                                                   *)
(***************************************************************************)
MaxRing == 2
MaxHoles == 2

(***************************************************************************)
(* Outcomes.                                                               *)
(***************************************************************************)
None == [tag |-> "None"]
Ok(v) == [tag |-> "ok", val |-> v]
Raise(exc, detail) == [tag |-> "raise", exc |-> exc, detail |-> detail]
NotCalled == [tag |-> "notcalled"]
Unset == [tag |-> "unset"]

(***************************************************************************)
(* matplotlib.path.Path codes.                                             *)
(***************************************************************************)
MOVETO == 1
LINETO == 2

(***************************************************************************)
(* Python primitives used by the module.                                   *)
(***************************************************************************)
hasattr(o, name) == o.cls = "object" /\ name \in DOMAIN o.attrs

getattr(o, name) ==
  IF hasattr(o, name) THEN Ok(o.attrs[name]) ELSE Raise("AttributeError", name)

\* dict.get(key, default)
Get(d, key, default) ==
  IF key \in DOMAIN d.items THEN d.items[key] ELSE default

RECURSIVE Flatten(_)
Flatten(ss) == IF Len(ss) = 0 THEN <<>> ELSE Head(ss) \o Flatten(Tail(ss))

\* The first exception of a sequence of outcomes evaluated left to right,
\* or Ok of the sequence of their values.
Collect(rs) ==
  IF \E i \in DOMAIN rs : rs[i].tag = "raise"
  THEN rs[CHOOSE i \in DOMAIN rs :
            /\ rs[i].tag = "raise"
            /\ \A j \in DOMAIN rs : rs[j].tag = "raise" => i <= j]
  ELSE Ok([i \in DOMAIN rs |-> rs[i].val])

(***************************************************************************)
(* class Polygon                                                           *)
(***************************************************************************)
PolygonGeoFirst(context) ==
  IF hasattr(context, "__geo_interface__")
  THEN [is_shapely |-> FALSE, context |-> context.attrs["__geo_interface__"]]
  ELSE IF hasattr(context, "interiors") \/ hasattr(context, "exterior")
  THEN [is_shapely |-> TRUE, context |-> context]
  ELSE [is_shapely |-> FALSE, context |-> context]

Polygon(context) ==
  IF hasattr(context, "interiors") \/ hasattr(context, "exterior")
  THEN [is_shapely |-> TRUE, context |-> context]
  ELSE IF hasattr(context, "__geo_interface__")
  THEN [is_shapely |-> FALSE, context |-> context.attrs["__geo_interface__"]]
  ELSE [is_shapely |-> FALSE, context |-> context]

geom_type(self) ==
  IF self.is_shapely
  THEN getattr(self.context, "geom_type")
  ELSE IF "type" \in DOMAIN self.context.items
       THEN Ok(Get(self.context, "type", None))
       ELSE Get(self.context, "type", None)

exteriorKeepEmpty(self) ==
  IF self.is_shapely
  THEN LET e == getattr(self.context, "exterior")
       IN  IF e.tag = "raise" THEN e ELSE Ok(e.val.coords)
  ELSE LET c == Get(self.context, "coordinates", <<>>)
       IN  IF Len(c) = 0 THEN Raise("IndexError", "list index out of range")
           ELSE Ok(c[1])

exterior(self) ==
  IF self.is_shapely
  THEN LET e == getattr(self.context, "exterior")
       IN  IF e.tag = "raise" THEN e
           ELSE LET ext_list == e.val.coords
                IN  IF Len(ext_list) = 0 THEN None ELSE Ok(ext_list)
  ELSE LET c == Get(self.context, "coordinates", <<>>)
       IN  IF Len(c) = 0 THEN Raise("IndexError", "list index out of range")
           ELSE Ok(c[1])

interiorsFromTwo(self) ==
  IF self.is_shapely
  THEN LET i == getattr(self.context, "interiors")
       IN  IF i.tag = "raise" THEN i
           ELSE Ok([k \in DOMAIN i.val |-> i.val[k].coords])
  ELSE LET c == Get(self.context, "coordinates", <<>>)
       IN  Ok(SubSeq(c, 3, Len(c)))

interiors(self) ==
  IF self.is_shapely
  THEN LET i == getattr(self.context, "interiors")
       IN  IF i.tag = "raise" THEN i
           ELSE Ok([k \in DOMAIN i.val |-> i.val[k].coords])
  ELSE LET c == Get(self.context, "coordinates", <<>>)
       IN  Ok(SubSeq(c, 2, Len(c)))

(***************************************************************************)
(* numpy: asarray of a list of coordinate pairs is two-dimensional,        *)
(* asarray of an empty list is one-dimensional of length 0; concatenate    *)
(* joins arrays along the first axis and raises ValueError when their      *)
(* numbers of dimensions differ.                                           *)
(***************************************************************************)
asarray(r) == [ndim |-> IF Len(r) = 0 THEN 1 ELSE 2, data |-> r]

concatenateReversed(arrs) ==
  IF \E i, j \in DOMAIN arrs : arrs[i].ndim # arrs[j].ndim
  THEN Raise("ValueError", "concatenate")
  ELSE Ok([ndim |-> arrs[1].ndim,
           data |-> Flatten([i \in DOMAIN arrs |-> arrs[Len(arrs) + 1 - i].data])])

concatenate(arrs) ==
  IF \E i, j \in DOMAIN arrs : arrs[i].ndim # arrs[j].ndim
  THEN Raise("ValueError", "concatenate")
  ELSE Ok([ndim |-> arrs[1].ndim,
           data |-> Flatten([i \in DOMAIN arrs |-> arrs[i].data])])

(***************************************************************************)
(* PolygonPath                                                             *)
(***************************************************************************)
codingMoveLast(ob) ==
  LET n == Len(ob)
      vals == [i \in 1..n |-> 1 * LINETO]
  IN  IF n = 0 THEN Raise("IndexError", "coding")
      ELSE Ok([ndim |-> 1, data |-> [vals EXCEPT ![n] = MOVETO]])

codingNoIndexError(ob) ==
  LET n == Len(ob)
      vals == [i \in 1..n |-> 1 * LINETO]
  IN  IF n = 0 THEN Ok([ndim |-> 1, data |-> vals])
      ELSE Ok([ndim |-> 1, data |-> [vals EXCEPT ![1] = MOVETO]])

\* `getattr(ob, 'coords', None) or ob` is ob itself: every ring handed to
\* coding is a plain list.
coding(ob) ==
  LET n == Len(ob)
      vals == [i \in 1..n |-> 1 * LINETO]
  IN  IF n = 0 THEN Raise("IndexError", "coding")
      ELSE Ok([ndim |-> 1, data |-> [vals EXCEPT ![1] = MOVETO]])

\* matplotlib.path.Path(vertices, codes)
Path(vertices, codes) == [vertices |-> vertices.data, codes |-> codes.data]

AssertTypeAny(gt) == TRUE

\* the condition of `assert this.geom_type == 'Polygon'`
AssertType(gt) == gt = Ok("Polygon")

PolygonPath(p) ==
  LET self == Polygon(p)
      gt == geom_type(self)
  IN  IF gt.tag = "raise" THEN gt
      ELSE IF ~AssertType(gt) THEN Raise("AssertionError", gt)
      ELSE LET ext == exterior(self)
           IN  IF ext.tag = "raise" THEN ext
               ELSE IF ext = None THEN None
               ELSE LET ints == interiors(self)
                    IN  IF ints.tag = "raise" THEN ints
                        ELSE LET rings == <<ext.val>> \o ints.val
                                 vertices == concatenate([k \in DOMAIN rings |-> asarray(rings[k])])
                                 cs == Collect([k \in DOMAIN rings |-> coding(rings[k])])
                             IN  IF vertices.tag = "raise" THEN vertices
                                 ELSE IF cs.tag = "raise" THEN cs
                                 ELSE Ok(Path(vertices.val, concatenate(cs.val).val))

(***************************************************************************)
(* PolygonPatch                                                            *)
(***************************************************************************)
\* matplotlib.patches.PathPatch(path, **kwargs)
PathPatch(path, kw) == [path |-> path, kwargs |-> kw]

PolygonPatchSwallow(p, kw) ==
  LET ppath == PolygonPath(p)
  IN  IF ppath.tag = "ok" THEN Ok(PathPatch(ppath.val, kw)) ELSE None

PolygonPatch(p, kw) ==
  LET ppath == PolygonPath(p)
  IN  IF ppath.tag = "raise" THEN ppath
      ELSE IF ppath # None THEN Ok(PathPatch(ppath.val, kw))
      ELSE None

(***************************************************************************)
(* Inputs.  A ring is a walk of at most MaxRing points around Corners,     *)
(* starting at any of them.                                                *)
(***************************************************************************)
Corners == << <<0, 0>>, <<1, 0>> >>

Ring(s, n) == [i \in 1..n |-> Corners[((s + i - 2) % Len(Corners)) + 1]]

Rings == {Ring(s, n) : s \in DOMAIN Corners, n \in 0..MaxRing}

SeqUpTo(S, n) == UNION {[1..k -> S] : k \in 0..n}

GeomTypes == {"Polygon", "MultiPolygon"}

EmptyDict == <<>>

Dict(f) == [cls |-> "dict", items |-> f]

Object(f) == [cls |-> "object", attrs |-> f]

LinearRing(r) == [coords |-> r]

\* GeoJSON-like mappings: "type" and "coordinates" each present or absent.
Mappings ==
  {Dict(t @@ c) :
     t \in {EmptyDict} \cup {"type" :> g : g \in GeomTypes},
     c \in {EmptyDict} \cup {"coordinates" :> cs : cs \in SeqUpTo(Rings, MaxHoles + 1)}}

\* Objects exposing only __geo_interface__.
GeoObjects == {Object("__geo_interface__" :> m) : m \in Mappings}

\* The mapping a Shapely-like object would convert to (never read for kind A).
ShapelyGeo == Dict("type" :> "Point")

\* Shapely-like objects: geom_type, and exterior and/or interiors, with or
\* without __geo_interface__.
ShapelyObjects ==
  {Object(("geom_type" :> g) @@ e @@ i @@ c) :
     g \in GeomTypes,
     e \in {EmptyDict} \cup {"exterior" :> LinearRing(r) : r \in Rings},
     i \in {EmptyDict} \cup {"interiors" :> [k \in DOMAIN hs |-> LinearRing(hs[k])] :
                               hs \in SeqUpTo(Rings, MaxHoles)},
     c \in {EmptyDict, "__geo_interface__" :> ShapelyGeo}}
  \ {Object(("geom_type" :> g) @@ c) :
       g \in GeomTypes, c \in {EmptyDict, "__geo_interface__" :> ShapelyGeo}}

Inputs == Mappings \cup GeoObjects \cup ShapelyObjects

NoKwargs == <<>>

Styles == {[fc |-> "blue", ec |-> "blue"], [alpha |-> "0.5"]}

(***************************************************************************)
(* The state machine: a caller holding one polygon-like input constructs   *)
(* the adapter, reads its properties and calls the builders, in any order. *)
(* op, kwargs and ret are the last call, its keyword arguments and its     *)
(* outcome.                                                                *)
(***************************************************************************)
Init ==
  /\ polygon \in Inputs
  /\ this = Unset
  /\ op = "none"
  /\ kwargs = NoKwargs
  /\ ret = NotCalled

Construct ==
  /\ this' = Polygon(polygon)
  /\ op' = "Polygon"
  /\ kwargs' = NoKwargs
  /\ ret' = None
  /\ UNCHANGED polygon

ReadGeomType ==
  /\ this # Unset
  /\ op' = "geom_type"
  /\ kwargs' = NoKwargs
  /\ ret' = geom_type(this)
  /\ UNCHANGED <<polygon, this>>

ReadExterior ==
  /\ this # Unset
  /\ op' = "exterior"
  /\ kwargs' = NoKwargs
  /\ ret' = exterior(this)
  /\ UNCHANGED <<polygon, this>>

ReadInteriors ==
  /\ this # Unset
  /\ op' = "interiors"
  /\ kwargs' = NoKwargs
  /\ ret' = interiors(this)
  /\ UNCHANGED <<polygon, this>>

CallPolygonPath ==
  /\ op' = "PolygonPath"
  /\ kwargs' = NoKwargs
  /\ ret' = PolygonPath(polygon)
  /\ UNCHANGED <<polygon, this>>

CallPolygonPatch ==
  \E kw \in Styles :
    /\ op' = "PolygonPatch"
    /\ kwargs' = kw
    /\ ret' = PolygonPatch(polygon, kw)
    /\ UNCHANGED <<polygon, this>>

Next ==
  \/ Construct
  \/ ReadGeomType
  \/ ReadExterior
  \/ ReadInteriors
  \/ CallPolygonPath
  \/ CallPolygonPatch

Spec == Init /\ [][Next]_vars

(***************************************************************************)
(* The input as the caller wrote it, read without the adapter.             *)
(***************************************************************************)
IsAttributeBased(p) == hasattr(p, "exterior") \/ hasattr(p, "interiors")

InputMapping(p) == IF p.cls = "dict" THEN p ELSE p.attrs["__geo_interface__"]

HasCoordinates(p) == "coordinates" \in DOMAIN InputMapping(p).items

InputCoordinates(p) == InputMapping(p).items["coordinates"]

InputType(p) ==
  IF IsAttributeBased(p) THEN Ok(p.attrs["geom_type"])
  ELSE IF "type" \in DOMAIN InputMapping(p).items
  THEN Ok(InputMapping(p).items["type"])
  ELSE None

IsPolygonA(p) ==
  /\ hasattr(p, "exterior") /\ hasattr(p, "interiors")
  /\ p.attrs["geom_type"] = "Polygon"

ExteriorCoords(p) == p.attrs["exterior"].coords

HoleCoords(p) == [k \in DOMAIN p.attrs["interiors"] |-> p.attrs["interiors"][k].coords]

\* The rings of an input that has an exterior ring: exterior first.
HasRings(p) ==
  IF IsAttributeBased(p)
  THEN hasattr(p, "exterior") /\ hasattr(p, "interiors")
  ELSE HasCoordinates(p) /\ Len(InputCoordinates(p)) >= 1

InputRings(p) ==
  IF IsAttributeBased(p) THEN <<ExteriorCoords(p)>> \o HoleCoords(p)
  ELSE InputCoordinates(p)

RECURSIVE SumLen(_, _)
\* the number of points of the first k rings
SumLen(rings, k) == IF k = 0 THEN 0 ELSE SumLen(rings, k - 1) + Len(rings[k])

TotalLen(rings) == SumLen(rings, Len(rings))

\* 0-based positions of the first point of each ring
RingStarts(rings) == {SumLen(rings, k - 1) : k \in DOMAIN rings}

CountsAndCommands(path, rings) ==
  /\ Len(path.vertices) = TotalLen(rings)
  /\ Len(path.codes) = Len(path.vertices)
  /\ \A pos \in 0..(Len(path.codes) - 1) :
       path.codes[pos + 1] = IF pos \in RingStarts(rings) THEN MOVETO ELSE LINETO

(***************************************************************************)
(* C1 as stated: for an attribute-based input of type "Polygon" with an    *)
(* exterior of N >= 1 points and H >= 0 holes of any sizes, PolygonPath    *)
(* returns a path of N + h_1 + ... + h_H vertices and as many commands,    *)
(* "move" at positions 0, N, N+h_1, ... and "line" elsewhere.              *)
(***************************************************************************)
C1_AsStated ==
  (op = "PolygonPath" /\ IsPolygonA(polygon) /\ Len(ExteriorCoords(polygon)) >= 1)
    => /\ ret.tag = "ok"
       /\ CountsAndCommands(ret.val, InputRings(polygon))

(***************************************************************************)
(* C1 amended: the same, for inputs every hole of which has at least one   *)
(* point.                                                                  *)
(***************************************************************************)
C1_PathCounts ==
  ( /\ op = "PolygonPath"
    /\ IsPolygonA(polygon)
    /\ Len(ExteriorCoords(polygon)) >= 1
    /\ \A k \in DOMAIN HoleCoords(polygon) : Len(HoleCoords(polygon)[k]) >= 1 )
    => /\ ret.tag = "ok"
       /\ CountsAndCommands(ret.val, InputRings(polygon))

C1_Witness ==
  /\ op = "PolygonPath"
  /\ IsPolygonA(polygon)
  /\ Len(ExteriorCoords(polygon)) = 2
  /\ Len(HoleCoords(polygon)) = 2
  /\ Len(HoleCoords(polygon)[1]) = 2
  /\ Len(HoleCoords(polygon)[2]) = 1
  /\ ret.tag = "ok"
  /\ ret.val.codes = <<MOVETO, LINETO, MOVETO, LINETO, MOVETO>>

(***************************************************************************)
(* C2: whenever PolygonPath returns a path, its vertices are the points of *)
(* the exterior ring followed by those of each interior ring, rings and    *)
(* points in input order, nothing added, dropped or changed, and the       *)
(* commands of the rings follow in the same ring order.                    *)
(***************************************************************************)
C2_VerticesInOrder ==
  (op = "PolygonPath" /\ ret.tag = "ok")
    => LET rings == InputRings(polygon)
       IN  /\ HasRings(polygon)
           /\ Len(ret.val.vertices) = TotalLen(rings)
           /\ Len(ret.val.codes) = TotalLen(rings)
           /\ \A k \in DOMAIN rings : \A i \in 1..Len(rings[k]) :
                /\ ret.val.vertices[SumLen(rings, k - 1) + i] = rings[k][i]
                /\ ret.val.codes[SumLen(rings, k - 1) + i]
                     = IF i = 1 THEN MOVETO ELSE LINETO

C2_Witness ==
  /\ op = "PolygonPath"
  /\ ret.tag = "ok"
  /\ Len(InputRings(polygon)) = 3
  /\ InputRings(polygon)[2] # InputRings(polygon)[3]
  /\ Len(InputRings(polygon)[2]) = 2
  /\ Len(InputRings(polygon)[3]) = 1
  /\ ret.val.vertices = InputRings(polygon)[1] \o InputRings(polygon)[2] \o InputRings(polygon)[3]

(***************************************************************************)
(* C3: for an input of either representation whose type is not "Polygon"   *)
(* (another string, or null for a mapping without "type"), PolygonPath     *)
(* fails with an error naming that type, whatever its exterior is.         *)
(***************************************************************************)
C3_WrongTypeFails ==
  (op = "PolygonPath" /\ InputType(polygon) # Ok("Polygon"))
    => ret = Raise("AssertionError", InputType(polygon))

C3_Witness ==
  /\ op = "PolygonPath"
  /\ ~IsAttributeBased(polygon)
  /\ InputType(polygon) = None
  /\ ~HasCoordinates(polygon)
  /\ ret = Raise("AssertionError", None)

(***************************************************************************)
(* C4: for an attribute-based input of type "Polygon" whose exterior ring  *)
(* has zero points, whatever its holes, PolygonPath and PolygonPatch       *)
(* return null and do not raise.                                           *)
(***************************************************************************)
EmptyExteriorA(p) ==
  /\ hasattr(p, "exterior")
  /\ p.attrs["geom_type"] = "Polygon"
  /\ Len(ExteriorCoords(p)) = 0

C4_EmptyExteriorNull ==
  (EmptyExteriorA(polygon) /\ op \in {"PolygonPath", "PolygonPatch"})
    => ret = None

C4_Witness ==
  /\ EmptyExteriorA(polygon)
  /\ hasattr(polygon, "interiors")
  /\ Len(HoleCoords(polygon)) = 2
  /\ Len(HoleCoords(polygon)[1]) = 2
  /\ Len(HoleCoords(polygon)[2]) = 0
  /\ op = "PolygonPatch"
  /\ ret = None

(***************************************************************************)
(* C5 as stated: for an input of type "Polygon" in either representation   *)
(* whose exterior is missing or empty, the adapter's exterior, PolygonPath *)
(* and PolygonPatch each yield null and none of them raises.               *)
(***************************************************************************)
NoExterior(p) ==
  IF IsAttributeBased(p)
  THEN hasattr(p, "exterior") /\ Len(ExteriorCoords(p)) = 0
  ELSE \/ ~HasCoordinates(p)
       \/ Len(InputCoordinates(p)) = 0
       \/ Len(InputCoordinates(p)[1]) = 0

C5_AsStated ==
  ( /\ InputType(polygon) = Ok("Polygon")
    /\ NoExterior(polygon)
    /\ op \in {"exterior", "PolygonPath", "PolygonPatch"} )
    => ret = None

(***************************************************************************)
(* C6: for a mapping-based input whose "coordinates" is                    *)
(* [ext, hole_1, ..., hole_k], the adapter's exterior is ext and its       *)
(* interiors is [hole_1, ..., hole_k], unchanged and in order; interiors   *)
(* is empty when "coordinates" has one element or is absent.               *)
(***************************************************************************)
C6_MappingRings ==
  (this # Unset /\ ~IsAttributeBased(polygon))
    => /\ (op = "exterior" /\ HasCoordinates(polygon) /\ Len(InputCoordinates(polygon)) >= 1)
            => ret = Ok(Head(InputCoordinates(polygon)))
       /\ (op = "interiors" /\ HasCoordinates(polygon) /\ Len(InputCoordinates(polygon)) >= 1)
            => ret = Ok(Tail(InputCoordinates(polygon)))
       /\ (op = "interiors" /\ ~HasCoordinates(polygon))
            => ret = Ok(<<>>)

C6_Witness ==
  /\ ~IsAttributeBased(polygon)
  /\ HasCoordinates(polygon)
  /\ Len(InputCoordinates(polygon)) = 3
  /\ InputCoordinates(polygon)[2] # InputCoordinates(polygon)[3]
  /\ op = "interiors"
  /\ ret = Ok(<<InputCoordinates(polygon)[2], InputCoordinates(polygon)[3]>>)

(***************************************************************************)
(* C7 as stated: for a mapping-based input without a "coordinates" key,    *)
(* reading the adapter's exterior returns an empty sequence and does not   *)
(* raise.                                                                  *)
(***************************************************************************)
C7_AsStated ==
  (op = "exterior" /\ ~IsAttributeBased(polygon) /\ ~HasCoordinates(polygon))
    => ret = Ok(<<>>)

(***************************************************************************)
(* C8: construction classifies the input by priority: exposing exterior or *)
(* interiors (either suffices, even with __geo_interface__) -> kind A, the *)
(* object stored as is; otherwise exposing __geo_interface__ -> kind B,    *)
(* the converted mapping stored; otherwise kind B, the input stored.  The  *)
(* kind does not change after construction and geom_type, exterior and     *)
(* interiors read the representation chosen then.                          *)
(***************************************************************************)
Classified ==
  this # Unset
    => /\ IsAttributeBased(polygon)
            => this = [is_shapely |-> TRUE, context |-> polygon]
       /\ (~IsAttributeBased(polygon) /\ hasattr(polygon, "__geo_interface__"))
            => this = [is_shapely |-> FALSE, context |-> polygon.attrs["__geo_interface__"]]
       /\ (~IsAttributeBased(polygon) /\ ~hasattr(polygon, "__geo_interface__"))
            => this = [is_shapely |-> FALSE, context |-> polygon]
       /\ op = "geom_type" => ret = InputType(polygon)
       /\ (op = "exterior" /\ IsAttributeBased(polygon) /\ hasattr(polygon, "exterior"))
            => ret = IF Len(ExteriorCoords(polygon)) = 0 THEN None
                     ELSE Ok(ExteriorCoords(polygon))
       /\ (op = "interiors" /\ IsAttributeBased(polygon) /\ hasattr(polygon, "interiors"))
            => ret = Ok(HoleCoords(polygon))

C8_Classification ==
  /\ []Classified
  /\ [][this # Unset => this' = this]_vars

C8_Witness ==
  /\ hasattr(polygon, "interiors")
  /\ ~hasattr(polygon, "exterior")
  /\ hasattr(polygon, "__geo_interface__")
  /\ this = [is_shapely |-> TRUE, context |-> polygon]
  /\ op = "geom_type"
  /\ ret = Ok("Polygon")

(***************************************************************************)
(* C9: PolygonPatch returns null exactly when PolygonPath on the same      *)
(* input returns null; when PolygonPath returns a path, PolygonPatch       *)
(* returns the shape made of that path and the caller's style              *)
(* configuration; when PolygonPath fails, PolygonPatch fails with the same *)
(* error.                                                                  *)
(***************************************************************************)
C9_PatchFollowsPath ==
  op = "PolygonPatch"
    => LET ppath == PolygonPath(polygon)
       IN  /\ (ret = None) <=> (ppath = None)
           /\ ppath.tag = "ok" => ret = Ok([path |-> ppath.val, kwargs |-> kwargs])
           /\ ppath.tag = "raise" => ret = ppath

C9_Witness ==
  /\ op = "PolygonPatch"
  /\ kwargs = [alpha |-> "0.5"]
  /\ ret.tag = "ok"
  /\ ret.val.kwargs = [alpha |-> "0.5"]
  /\ Len(ret.val.path.vertices) = 3

(***************************************************************************)
(* C10 as stated: for an input of type "Polygon" with a non-null exterior  *)
(* in which some ring handed to the builder has zero points, PolygonPath   *)
(* raises while building that ring's commands.                             *)
(***************************************************************************)
SomeEmptyRing(p) ==
  /\ InputType(p) = Ok("Polygon")
  /\ HasRings(p)
  /\ IsAttributeBased(p) => Len(ExteriorCoords(p)) >= 1
  /\ \E k \in DOMAIN InputRings(p) : Len(InputRings(p)[k]) = 0

C10_AsStated ==
  (op = "PolygonPath" /\ SomeEmptyRing(polygon))
    => ret = Raise("IndexError", "coding")

(***************************************************************************)
(* C10 amended: for such an input PolygonPath raises: a ValueError from    *)
(* the concatenation of the vertices when the rings are not all empty, an  *)
(* IndexError from building the commands when they all are; it returns     *)
(* neither a path nor null.  Every returned path has as many commands as   *)
(* vertices, no ring of zero points, and a "move" at the start of each     *)
(* ring.                                                                   *)
(***************************************************************************)
C10_EmptyRingRaises ==
  op = "PolygonPath"
    => /\ SomeEmptyRing(polygon)
            => ret = IF \A k \in DOMAIN InputRings(polygon) : Len(InputRings(polygon)[k]) = 0
                     THEN Raise("IndexError", "coding")
                     ELSE Raise("ValueError", "concatenate")
       /\ ret.tag = "ok"
            => /\ \A k \in DOMAIN InputRings(polygon) : Len(InputRings(polygon)[k]) >= 1
               /\ Len(ret.val.vertices) = Len(ret.val.codes)
               /\ \A k \in DOMAIN InputRings(polygon) :
                    ret.val.codes[SumLen(InputRings(polygon), k - 1) + 1] = MOVETO

C10_Witness ==
  /\ op = "PolygonPath"
  /\ SomeEmptyRing(polygon)
  /\ IsAttributeBased(polygon)
  /\ Len(HoleCoords(polygon)) = 2
  /\ Len(HoleCoords(polygon)[2]) = 0
  /\ ret = Raise("ValueError", "concatenate")

====
